---------------------------- MODULE Spec2Model ----------------------------
(***************************************************************************)
(* Grover's search as written in examples/grovers_search.rs.               *)
(*                                                                         *)
(* The register is a real state vector: the gates used (X, H and the       *)
(* multi-controlled phase flip) never introduce an imaginary part.  An     *)
(* amplitude is kept exactly as an integer a[i] over a common scale, the   *)
(* true amplitude being a[i] / sqrt(2)^k, so that a probability is the     *)
(* rational a[i]^2 / 2^k.                                                  *)
(***************************************************************************)
EXTENDS Integers, Naturals, Sequences, FiniteSets, TLC

VARIABLES
    pc,          \* position in main / which harness is running
    num_qubits,  \* main: num_qubits
    raw_key,     \* main: the literal the key is taken from (3253523 in the source)
    num_elems,   \* main: num_elems
    num_reps,    \* main: num_reps
    sol_elem,    \* main: sol_elem
    r,           \* main: loop variable of the amplification loop
    qureg,       \* the register
    qureg0,      \* the register as it was when main started to use it
    probs,       \* the probabilities printed so far, each <<numerator, denominator>>
    ops,         \* the register operations issued so far, in order
    hist         \* gate harness: the register before each operation of ops

vars == <<pc, num_qubits, raw_key, num_elems, num_reps, sol_elem, r,
          qureg, qureg0, probs, ops, hist>>

-----------------------------------------------------------------------------
(* Bounds of the model *)

MaxQubits == 3      \* register sizes 1..MaxQubits carry a state vector
KeySpan == 2        \* main: the key literal ranges over 0 .. KeySpan * 2^n - 1
MaxOps == 3         \* gate harness: number of oracle/diffuser applications

(* Program constants *)

SrcNumQubits == 15  \* const num_qubits: i32 = 15
PiSqMilli == 9870   \* PI^2 = 9.8696..., in thousandths

-----------------------------------------------------------------------------
(* Integer helpers *)

RECURSIVE Pow2(_)
Pow2(n) == IF n <= 0 THEN 1 ELSE 2 * Pow2(n - 1)

\* (x >> q) & 1 on a two's complement integer (\div rounds down, as >> does)
Bit(x, q) == (x \div Pow2(q)) % 2

FlipBit(i, q) == IF Bit(i, q) = 0 THEN i + Pow2(q) ELSE i - Pow2(q)

RECURSIVE SumSq(_, _)
SumSq(a, i) == IF i < 0 THEN 0 ELSE a[i] * a[i] + SumSq(a, i - 1)

RECURSIVE SumAmp(_, _)
SumAmp(a, i) == IF i < 0 THEN 0 ELSE a[i] + SumAmp(a, i - 1)

-----------------------------------------------------------------------------
(* The register and the backend's gates *)

Indices(n) == 0 .. (Pow2(n) - 1)

\* Bring the scale to its least value: a / sqrt(2)^k = (a/2) / sqrt(2)^(k-2)
RECURSIVE Normalize(_)
Normalize(reg) ==
    IF reg.k >= 2 /\ \A i \in DOMAIN reg.a : reg.a[i] % 2 = 0
    THEN Normalize([reg EXCEPT !.a = [i \in DOMAIN reg.a |-> reg.a[i] \div 2],
                               !.k = reg.k - 2])
    ELSE reg

\* The backend rejects an invalid argument and the register is lost
Invalid(reg) == [reg EXCEPT !.ok = FALSE]

BasisState(n, b) ==
    [n |-> n, a |-> [i \in Indices(n) |-> IF i = b THEN 1 ELSE 0], k |-> 0, ok |-> TRUE]

init_plus_state(reg) ==
    IF ~reg.ok THEN reg
    ELSE Normalize([reg EXCEPT !.a = [i \in Indices(reg.n) |-> 1], !.k = reg.n])

pauli_x(reg, q) ==
    IF ~reg.ok \/ q \notin 0 .. (reg.n - 1) THEN Invalid(reg)
    ELSE [reg EXCEPT !.a = [i \in DOMAIN reg.a |-> reg.a[FlipBit(i, q)]]]

hadamard(reg, q) ==
    IF ~reg.ok \/ q \notin 0 .. (reg.n - 1) THEN Invalid(reg)
    ELSE Normalize([reg EXCEPT
            !.a = [i \in DOMAIN reg.a |->
                     IF Bit(i, q) = 0 THEN reg.a[i] + reg.a[FlipBit(i, q)]
                                      ELSE reg.a[FlipBit(i, q)] - reg.a[i]],
            !.k = reg.k + 1])

multi_controlled_phase_flip(reg, ctrls) ==
    IF \/ ~reg.ok
       \/ Len(ctrls) = 0
       \/ \E j \in 1 .. Len(ctrls) : ctrls[j] \notin 0 .. (reg.n - 1)
       \/ \E j, l \in 1 .. Len(ctrls) : j # l /\ ctrls[j] = ctrls[l]
    THEN Invalid(reg)
    ELSE [reg EXCEPT !.a = [i \in DOMAIN reg.a |->
                              IF \A j \in 1 .. Len(ctrls) : Bit(i, ctrls[j]) = 1
                              THEN -reg.a[i] ELSE reg.a[i]]]

\* |amplitude|^2 of a basis state as <<numerator, denominator>>; <<-1, 1>> when the
\* backend rejects the index
probability_amplitude(reg, index) ==
    IF ~reg.ok \/ index \notin DOMAIN reg.a THEN <<-1, 1>>
    ELSE <<reg.a[index] * reg.a[index], Pow2(reg.k)>>

-----------------------------------------------------------------------------
(* applyOracle *)

\* Variant: the flips are applied where the key's bit is 1 instead of 0
RECURSIVE OracleFlipsOnOnes(_, _, _, _)
OracleFlipsOnOnes(reg, n, key, q) ==
    IF q >= n THEN reg
    ELSE OracleFlipsOnOnes(IF Bit(key, q) = 1 THEN pauli_x(reg, q) ELSE reg, n, key, q + 1)

\* for q in 0..num_qubits { if ((sol_elem >> q) & 1) == 0 { qureg.pauli_x(q); } }
RECURSIVE OracleFlips(_, _, _, _)
OracleFlips(reg, n, key, q) ==
    IF q >= n THEN reg
    ELSE OracleFlips(IF Bit(key, q) = 0 THEN pauli_x(reg, q) ELSE reg, n, key, q + 1)

\* Variant: the control qubits are 1..=num_qubits
control_qubits_from_one(n) == [j \in 1 .. n |-> j]

\* (0..num_qubits).collect::<Vec<_>>()
control_qubits(n) == [j \in 1 .. n |-> j - 1]

\* Variant: the second pass of flips is left out
applyOracleNoUnflip(reg, n, key) ==
    multi_controlled_phase_flip(OracleFlips(reg, n, key, 0), control_qubits(n))

applyOracle(reg, n, key) ==
    OracleFlips(
        multi_controlled_phase_flip(OracleFlips(reg, n, key, 0), control_qubits(n)),
        n, key, 0)

-----------------------------------------------------------------------------
(* applyDiffuser *)

RECURSIVE HadamardAll(_, _, _)
HadamardAll(reg, n, q) ==
    IF q >= n THEN reg ELSE HadamardAll(hadamard(reg, q), n, q + 1)

\* Variant: the loop over the qubits starts at qubit 1
RECURSIVE PauliXAllFromOne(_, _, _)
PauliXAllFromOne(reg, n, q) ==
    IF q >= n THEN reg
    ELSE PauliXAllFromOne(IF q = 0 THEN reg ELSE pauli_x(reg, q), n, q + 1)

RECURSIVE PauliXAll(_, _, _)
PauliXAll(reg, n, q) ==
    IF q >= n THEN reg ELSE PauliXAll(pauli_x(reg, q), n, q + 1)

\* Variant: the closing pass of Hadamards is left out
applyDiffuserNoClosingH(reg, n) ==
    PauliXAll(
        multi_controlled_phase_flip(
            PauliXAll(HadamardAll(reg, n, 0), n, 0),
            control_qubits(n)),
        n, 0)

\* Variant: the flips are issued before the Hadamards, and undone after them
applyDiffuserFlipsFirst(reg, n) ==
    PauliXAll(
        HadamardAll(
            multi_controlled_phase_flip(
                HadamardAll(PauliXAll(reg, n, 0), n, 0),
                control_qubits(n)),
            n, 0),
        n, 0)

applyDiffuser(reg, n) ==
    HadamardAll(
        PauliXAll(
            multi_controlled_phase_flip(
                PauliXAll(HadamardAll(reg, n, 0), n, 0),
                control_qubits(n)),
            n, 0),
        n, 0)

-----------------------------------------------------------------------------
(* main: the repetition count *)

\* Variant: the count is rounded down (floor instead of ceil)
RECURSIVE FloorQuarterPiSqrt(_, _)
FloorQuarterPiSqrt(elems, R) ==
    IF 16 * 1000 * (R + 1) * (R + 1) > PiSqMilli * elems THEN R
    ELSE FloorQuarterPiSqrt(elems, R + 1)

\* least R with R >= (PI/4) * sqrt(elems), i.e. 16 R^2 >= PI^2 * elems.
\* For 2 .. 2^16 elements (PI/4) * sqrt(elems) is at least 0.06 away from every
\* integer, far more than the error of PiSqMilli or of the f64 arithmetic, so the
\* integer search and the floating-point ceiling agree.
RECURSIVE CeilQuarterPiSqrt(_, _)
CeilQuarterPiSqrt(elems, R) ==
    IF 16 * 1000 * R * R >= PiSqMilli * elems THEN R
    ELSE CeilQuarterPiSqrt(elems, R + 1)

\* Variant: sqrt of the number of qubits instead of the number of elements
iteration_count_of_qubits(n) == CeilQuarterPiSqrt(n, 0)

\* f64::ceil(PI / 4.0 * (num_elems as QReal).sqrt()) as usize
iteration_count(n) == CeilQuarterPiSqrt(Pow2(n), 0)

-----------------------------------------------------------------------------
(* main *)

NextPc(reg, to) == IF reg.ok THEN to ELSE "aborted"

Init ==
    /\ pc = "start"
    /\ num_qubits \in 1 .. MaxQubits
    /\ raw_key \in 0 .. (KeySpan * Pow2(num_qubits) - 1)
    /\ num_elems = 0
    /\ num_reps = 0
    /\ sol_elem = 0
    /\ r = 0
    /\ \E b \in Indices(num_qubits) : qureg = BasisState(num_qubits, b)
    /\ qureg0 = qureg
    /\ probs = << >>
    /\ ops = << >>
    /\ hist = << >>

\* num_elems, num_reps and sol_elem
Setup ==
    /\ pc = "start"
    /\ num_elems' = Pow2(num_qubits)
    /\ num_reps' = iteration_count(num_qubits)
    /\ sol_elem' = raw_key % Pow2(num_qubits)
    /\ pc' = "setup"
    /\ UNCHANGED <<num_qubits, raw_key, r, qureg, qureg0, probs, ops, hist>>

\* qureg.init_plus_state()
InitPlus ==
    /\ pc = "setup"
    /\ qureg' = init_plus_state(qureg)
    /\ ops' = Append(ops, "init")
    /\ r' = 0
    /\ pc' = NextPc(qureg', "loop")
    /\ UNCHANGED <<num_qubits, raw_key, num_elems, num_reps, sol_elem, qureg0, probs, hist>>

\* applyOracle(qureg, num_qubits, sol_elem) of iteration r
LoopOracle ==
    /\ pc = "loop"
    /\ r < num_reps
    /\ qureg' = applyOracle(qureg, num_qubits, sol_elem)
    /\ ops' = Append(ops, "oracle")
    /\ pc' = NextPc(qureg', "oracle_done")
    /\ UNCHANGED <<num_qubits, raw_key, num_elems, num_reps, sol_elem, r, qureg0, probs, hist>>

\* applyDiffuser(qureg, num_qubits) of iteration r
LoopDiffuser ==
    /\ pc = "oracle_done"
    /\ qureg' = applyDiffuser(qureg, num_qubits)
    /\ ops' = Append(ops, "diffuser")
    /\ pc' = NextPc(qureg', "diffused")
    /\ UNCHANGED <<num_qubits, raw_key, num_elems, num_reps, sol_elem, r, qureg0, probs, hist>>

\* println!(.., qureg.probability_amplitude(sol_elem as i64)) and the loop's r += 1
LoopPrint ==
    /\ pc = "diffused"
    /\ probs' = Append(probs, probability_amplitude(qureg, sol_elem))
    /\ ops' = Append(ops, "read")
    /\ r' = r + 1
    /\ pc' = IF probability_amplitude(qureg, sol_elem)[1] >= 0 THEN "loop" ELSE "aborted"
    /\ UNCHANGED <<num_qubits, raw_key, num_elems, num_reps, sol_elem, qureg, qureg0, hist>>

\* Variant: the loop is left one iteration early
LoopExitEarly ==
    /\ pc = "loop"
    /\ r + 1 >= num_reps
    /\ pc' = "done"
    /\ UNCHANGED <<num_qubits, raw_key, num_elems, num_reps, sol_elem, r, qureg, qureg0,
                   probs, ops, hist>>

\* the loop is left after num_reps iterations and main returns
LoopExit ==
    /\ pc = "loop"
    /\ r >= num_reps
    /\ pc' = "done"
    /\ UNCHANGED <<num_qubits, raw_key, num_elems, num_reps, sol_elem, r, qureg, qureg0,
                   probs, ops, hist>>

Next == Setup \/ InitPlus \/ LoopOracle \/ LoopDiffuser \/ LoopPrint \/ LoopExit

Spec == Init /\ [][Next]_vars

-----------------------------------------------------------------------------
(* The repetition count for every register size up to the source's 15: main's *)
(* arithmetic and loop control, without the state vector                      *)

NoRegister == BasisState(1, 0)

CountInit ==
    /\ pc = "count_start"
    /\ num_qubits \in 1 .. SrcNumQubits
    /\ raw_key = 0
    /\ num_elems = 0
    /\ num_reps = 0
    /\ sol_elem = 0
    /\ r = 0
    /\ qureg = NoRegister
    /\ qureg0 = NoRegister
    /\ probs = << >>
    /\ ops = << >>
    /\ hist = << >>

CountSetup ==
    /\ pc = "count_start"
    /\ num_elems' = Pow2(num_qubits)
    /\ num_reps' = iteration_count(num_qubits)
    /\ pc' = "count_loop"
    /\ UNCHANGED <<num_qubits, raw_key, sol_elem, r, qureg, qureg0, probs, ops, hist>>

CountLoop ==
    /\ pc = "count_loop"
    /\ r < num_reps
    /\ r' = r + 1
    /\ UNCHANGED <<pc, num_qubits, raw_key, num_elems, num_reps, sol_elem, qureg, qureg0,
                   probs, ops, hist>>

CountExit ==
    /\ pc = "count_loop"
    /\ r >= num_reps
    /\ pc' = "count_done"
    /\ UNCHANGED <<num_qubits, raw_key, num_elems, num_reps, sol_elem, r, qureg, qureg0,
                   probs, ops, hist>>

CountNext == CountSetup \/ CountLoop \/ CountExit

CountSpec == CountInit /\ [][CountNext]_vars

-----------------------------------------------------------------------------
(* applyOracle and applyDiffuser on arbitrary register states *)

SignedBasis(n) ==
    { [n |-> n, a |-> [i \in Indices(n) |-> IF i = b THEN s ELSE 0], k |-> 0, ok |-> TRUE] :
        b \in Indices(n), s \in {-1, 1} }

SignedPairs(n) ==
    { [n |-> n,
       a |-> [i \in Indices(n) |-> IF i = c[1] THEN c[3] ELSE IF i = c[2] THEN c[4] ELSE 0],
       k |-> 1, ok |-> TRUE] :
        c \in { d \in Indices(n) \X Indices(n) \X {-1, 1} \X {-1, 1} : d[1] < d[2] } }

RegisterStates(n) == SignedBasis(n) \cup SignedPairs(n)

GateInit ==
    /\ pc = "gates"
    /\ num_qubits \in 1 .. MaxQubits
    /\ sol_elem \in Indices(num_qubits)
    /\ raw_key = sol_elem
    /\ num_elems = Pow2(num_qubits)
    /\ num_reps = 0
    /\ r = 0
    /\ qureg \in RegisterStates(num_qubits)
    /\ qureg0 = qureg
    /\ probs = << >>
    /\ ops = << >>
    /\ hist = << >>

GateOracle ==
    /\ pc = "gates"
    /\ Len(ops) < MaxOps
    /\ qureg' = applyOracle(qureg, num_qubits, sol_elem)
    /\ ops' = Append(ops, "oracle")
    /\ hist' = Append(hist, qureg)
    /\ UNCHANGED <<pc, num_qubits, raw_key, num_elems, num_reps, sol_elem, r, qureg0, probs>>

GateDiffuser ==
    /\ pc = "gates"
    /\ Len(ops) < MaxOps
    /\ qureg' = applyDiffuser(qureg, num_qubits)
    /\ ops' = Append(ops, "diffuser")
    /\ hist' = Append(hist, qureg)
    /\ UNCHANGED <<pc, num_qubits, raw_key, num_elems, num_reps, sol_elem, r, qureg0, probs>>

GateNext == GateOracle \/ GateDiffuser

GateSpec == GateInit /\ [][GateNext]_vars

-----------------------------------------------------------------------------
(* Vocabulary of the properties *)

ValidKey == raw_key \in Indices(num_qubits)

\* the probabilities of all basis states sum to 1
UnitNorm(reg) == reg.ok /\ SumSq(reg.a, Pow2(reg.n) - 1) = Pow2(reg.k)

\* every basis state has the same probability in x and in y
SameProbabilities(x, y) ==
    \A i \in DOMAIN x.a : x.a[i] * x.a[i] * Pow2(y.k) = y.a[i] * y.a[i] * Pow2(x.k)

\* x and y are the same state up to a global phase (a sign, the amplitudes being real)
SameUpToPhase(x, y) ==
    /\ x.ok /\ y.ok /\ x.k = y.k
    /\ \/ \A i \in DOMAIN x.a : x.a[i] = y.a[i]
       \/ \A i \in DOMAIN x.a : x.a[i] = -y.a[i]

LastOps(m) == SubSeq(ops, Len(ops) - m + 1, Len(ops))

InRange01(p) == p[2] > 0 /\ 0 <= p[1] /\ p[1] <= p[2]

RECURSIVE Iterations(_, _)
Iterations(body, R) == IF R <= 0 THEN << >> ELSE body \o Iterations(body, R - 1)

IsPrefix(s, t) == Len(s) <= Len(t) /\ SubSeq(t, 1, Len(s)) = s

-----------------------------------------------------------------------------
(* C1 *)

\* C1: a search with a key outside [0, 2^num_qubits) ends with KeyOutOfBound and leaves
\* the register in its pre-call state: nothing is applied to it, the key is not
\* reduced into range, and the run does not complete as a search.
C1_OutOfRangeKeyRejected ==
    ~ValidKey =>
        /\ qureg = qureg0
        /\ ops = << >>
        /\ (pc # "start" => sol_elem = raw_key)
        /\ pc # "done"

-----------------------------------------------------------------------------
(* C2 *)

\* C2 as stated: for num_qubits = 3 and key = 5 the run makes 3 iterations and ends
\* with the probability of basis state 5 above 0.9, the other seven summing to the
\* complement.
C2_EndToEndAbovePointNine ==
    (pc = "done" /\ num_qubits = 3 /\ raw_key = 5) =>
        /\ num_reps = 3
        /\ 10 * probs[Len(probs)][1] > 9 * probs[Len(probs)][2]
        /\ SumSq(qureg.a, 7) - qureg.a[5] * qureg.a[5]
             = Pow2(qureg.k) - qureg.a[5] * qureg.a[5]

\* C2 amended: for num_qubits = 3 and key = 5 the run makes iteration_count(3) = 3
\* iterations; the probability of basis state 5 is 25/32 after the first, 121/128
\* (above 0.9) after the second and 169/512 (below 0.9) after the third and last,
\* and the other seven basis states sum to exactly the complement.
C2_EndToEndOverRotates ==
    (pc = "done" /\ num_qubits = 3 /\ raw_key = 5) =>
        /\ num_reps = 3
        /\ probs = << <<25, 32>>, <<121, 128>>, <<169, 512>> >>
        /\ 10 * probs[2][1] > 9 * probs[2][2]
        /\ 10 * probs[3][1] < 9 * probs[3][2]
        /\ probability_amplitude(qureg, 5) = probs[3]
        /\ SumSq(qureg.a, 7) - qureg.a[5] * qureg.a[5]
             = Pow2(qureg.k) - qureg.a[5] * qureg.a[5]

C2_Witness == pc = "done" /\ num_qubits = 3 /\ raw_key = 5 /\ Len(probs) = 3

-----------------------------------------------------------------------------
(* C3 *)

\* C3 as stated: for num_qubits = 2 and every key in [0, 4) the run makes 1 iteration
\* and ends with the probability of the key far above 0.25 (about 1.0).
C3_TwoQubitsOneIteration ==
    (pc = "done" /\ num_qubits = 2 /\ ValidKey) =>
        /\ num_reps = 1
        /\ 10 * probs[Len(probs)][1] > 9 * probs[Len(probs)][2]

\* C3 amended: for num_qubits = 2 and every key in [0, 4), iteration_count(2) = 2;
\* the first iteration brings the probability of the key to exactly 1, and the
\* second and last brings it back to exactly the uniform value 1/4.
C3_TwoQubitsTwoIterations ==
    (num_qubits = 2 /\ ValidKey /\ pc # "start") =>
        /\ num_reps = 2
        /\ pc # "aborted"
        /\ (Len(probs) >= 1 => probs[1][1] = probs[1][2])
        /\ (Len(probs) >= 2 => 4 * probs[2][1] = probs[2][2])
        /\ (pc = "done" => Len(probs) = 2)

C3_Witness == pc = "done" /\ num_qubits = 2 /\ raw_key = 3 /\ Len(probs) = 2

-----------------------------------------------------------------------------
(* C4 *)

\* C4 as stated: iteration_count(1) = 1, iteration_count(4) = 4 and
\* iteration_count(15) = 142.
C4_CountsAsStated ==
    pc # "count_start" =>
        /\ (num_qubits = 1 => num_reps = 1)
        /\ (num_qubits = 4 => num_reps = 4)
        /\ (num_qubits = 15 => num_reps = 142)

\* C4 amended: iteration_count(n) is the least integer R with 16 R^2 >= pi^2 * 2^n,
\* which is iteration_count(1) = 2, iteration_count(4) = 4 and
\* iteration_count(15) = 143; the loop runs exactly that many times.
C4_CountsAsComputed ==
    pc # "count_start" =>
        /\ 16 * 1000 * num_reps * num_reps >= PiSqMilli * num_elems
        /\ 16 * 1000 * (num_reps - 1) * (num_reps - 1) < PiSqMilli * num_elems
        /\ (num_qubits = 1 => num_reps = 2)
        /\ (num_qubits = 4 => num_reps = 4)
        /\ (num_qubits = 15 => num_reps = 143)
        /\ (pc = "count_done" => r = num_reps)

C4_Witness == pc = "count_done" /\ num_qubits = 15 /\ r = 143

-----------------------------------------------------------------------------
(* C5 *)

\* the register after each pass of the oracle about to be applied
OracleStages(reg, n, key) ==
    << OracleFlips(reg, n, key, 0),
       multi_controlled_phase_flip(OracleFlips(reg, n, key, 0), control_qubits(n)),
       applyOracle(reg, n, key) >>

\* the register after each pass of the diffuser about to be applied
DiffuserStages(reg, n) ==
    << HadamardAll(reg, n, 0),
       PauliXAll(HadamardAll(reg, n, 0), n, 0),
       multi_controlled_phase_flip(PauliXAll(HadamardAll(reg, n, 0), n, 0),
                                   control_qubits(n)),
       applyDiffuser(reg, n) >>

\* C5: with a key in [0, 2^num_qubits) the run never fails, every probability it
\* reads lies in [0, 1], and the probabilities of all basis states sum to 1 after
\* every step of the run and after every pass of gates inside a step.
C5_ValidKeyRunSucceeds ==
    ValidKey =>
        /\ pc # "aborted"
        /\ (pc # "start" => sol_elem = raw_key)
        /\ UnitNorm(qureg)
        /\ \A j \in 1 .. Len(probs) : InRange01(probs[j])
        /\ (pc = "loop" =>
              \A j \in 1 .. 3 : UnitNorm(OracleStages(qureg, num_qubits, sol_elem)[j]))
        /\ (pc = "oracle_done" =>
              \A j \in 1 .. 4 : UnitNorm(DiffuserStages(qureg, num_qubits)[j]))
        /\ (pc = "done" => Len(probs) = num_reps /\ InRange01(probs[Len(probs)]))

C5_Witness ==
    pc = "done" /\ ValidKey /\ num_qubits = 3 /\ Len(probs) = 3 /\ probs[3][1] > 0

-----------------------------------------------------------------------------
(* C6 *)

\* C6: two successive applications of the oracle for the same key restore the
\* register up to a global phase; every basis state has the probability it had.
C6_OracleInvolution ==
    (Len(ops) >= 2 /\ LastOps(2) = <<"oracle", "oracle">>) =>
        /\ SameUpToPhase(qureg, hist[Len(hist) - 1])
        /\ SameProbabilities(qureg, hist[Len(hist) - 1])

C6_Witness ==
    /\ Len(ops) >= 2 /\ LastOps(2) = <<"oracle", "oracle">>
    /\ num_qubits = 3 /\ sol_elem = 5
    /\ qureg.k = 1 /\ qureg.a[5] # 0 /\ qureg.a[7] # 0

-----------------------------------------------------------------------------
(* C7 *)

\* C7: two successive applications of the diffuser restore the register up to a
\* global phase.
C7_DiffuserInvolution ==
    (Len(ops) >= 2 /\ LastOps(2) = <<"diffuser", "diffuser">>) =>
        /\ SameUpToPhase(qureg, hist[Len(hist) - 1])
        /\ SameProbabilities(qureg, hist[Len(hist) - 1])

C7_Witness ==
    /\ Len(ops) >= 2 /\ LastOps(2) = <<"diffuser", "diffuser">>
    /\ num_qubits = 3
    /\ qureg.k = 1 /\ hist[Len(hist)].k > 1

-----------------------------------------------------------------------------
(* C8 *)

\* C8: the oracle negates the amplitude of basis state key and leaves the amplitude
\* of every other basis state unchanged.
C8_OracleNegatesKeyOnly ==
    (Len(ops) >= 1 /\ LastOps(1) = <<"oracle">>) =>
        /\ qureg.ok
        /\ qureg.k = hist[Len(hist)].k
        /\ \A i \in Indices(num_qubits) :
             qureg.a[i] = IF i = sol_elem THEN -hist[Len(hist)].a[i]
                                          ELSE hist[Len(hist)].a[i]

C8_Witness ==
    /\ Len(ops) >= 1 /\ LastOps(1) = <<"oracle">>
    /\ num_qubits = 3 /\ sol_elem = 2
    /\ hist[Len(hist)].a[2] = 1 /\ qureg.a[2] = -1
    /\ \E i \in Indices(3) : i # 2 /\ qureg.a[i] # 0

-----------------------------------------------------------------------------
(* C9 *)

\* y is minus the inversion of x about the mean of its amplitudes:
\* each amplitude of y is -(2 * mean - amplitude of x)
MinusInversionAboutMean(x, y) ==
    LET N == Pow2(x.n)
        S == SumAmp(x.a, N - 1)
    IN /\ y.ok
       /\ (y.k - x.k) % 2 = 0
       /\ \A i \in DOMAIN x.a :
            IF y.k >= x.k
            THEN y.a[i] * N = -(2 * S - N * x.a[i]) * Pow2((y.k - x.k) \div 2)
            ELSE y.a[i] * N * Pow2((x.k - y.k) \div 2) = -(2 * S - N * x.a[i])

\* C9: the diffuser maps every amplitude to minus (2 * mean of all amplitudes - the
\* old amplitude), i.e. it is 2|s><s| - I up to the overall sign.
C9_DiffuserInvertsAboutMean ==
    (Len(ops) >= 1 /\ LastOps(1) = <<"diffuser">>) =>
        MinusInversionAboutMean(hist[Len(hist)], qureg)

C9_Witness ==
    /\ Len(ops) >= 1 /\ LastOps(1) = <<"diffuser">>
    /\ num_qubits = 3
    /\ SumAmp(hist[Len(hist)].a, 7) = 2
    /\ \E i, j \in Indices(3) : qureg.a[i] # 0 /\ qureg.a[j] # 0 /\ qureg.a[i] # qureg.a[j]

-----------------------------------------------------------------------------
(* C10 *)

RunTrace(R) == <<"init">> \o Iterations(<<"oracle", "diffuser", "read">>, R)

\* some step of main can be taken (the guards of Setup .. LoopExit)
CanStep ==
    \/ pc \in {"start", "setup", "oracle_done", "diffused"}
    \/ pc = "loop" /\ (r < num_reps \/ r >= num_reps)

\* the number of steps main still has to take
StepsLeft ==
    LET R == iteration_count(num_qubits)
    IN CASE pc = "start" -> 3 * R + 3
         [] pc = "setup" -> 3 * R + 2
         [] pc = "loop" -> 3 * (R - r) + 1
         [] pc = "oracle_done" -> 3 * (R - r)
         [] pc = "diffused" -> 3 * (R - r) - 1
         [] OTHER -> 0

=============================================================================
